---------------------------- MODULE Spec2Model ----------------------------
(***************************************************************************)
(* Model of the Whisper transcription service, whisper-api/app/main.py:    *)
(* the lifespan that loads the engine, the /health handler and the         *)
(* /transcribe handler with its staging, its two offloaded engine calls,   *)
(* its normalisation of the engine's segments and its cleanup.             *)
(*                                                                         *)
(* The handlers are coroutines of one event loop: the code between two     *)
(* awaits runs without interleaving, so every action below is one such     *)
(* stretch of a handler.  The engine runs on worker threads, whose steps   *)
(* interleave freely with the event loop's.  The engine, the file system   *)
(* and the upload are the environment: what they return or raise is        *)
(* chosen nondeterministically.                                            *)
(*                                                                         *)
(* Floats (times, probabilities) are integers; a str is the sequence of    *)
(* its characters where the code looks inside it (strip, join) and a TLA+  *)
(* string where it only formats or passes it on.  The request's language   *)
(* and initial_prompt and the file suffix only travel to the engine and    *)
(* to the file name; they are left out.                                    *)
(***************************************************************************)
EXTENDS Integers, Sequences, FiniteSets, TLC

(***************************************************************************)
(* Bounds of the model.                                                    *)
(***************************************************************************)
\* Segments the engine emits at most for one request (specification Spec).
MaxSegs == 3
\* The same, with two requests in flight (specification SpecConc).
MaxSegsConc == 1
\* Names the temporary directory can hand out.
NPaths == 2

(***************************************************************************)
(* Program constants and the environment's small sets.                     *)
(***************************************************************************)
MAX_FILE_SIZE == 50 * 1024 * 1024

Requests == {1, 2}
Paths == {"tmp" \o ToString(i) : i \in 1..NPaths}
Unbound == "unbound"

Filenames == {"", "voice.oga"}
Sizes == {1, MAX_FILE_SIZE, MAX_FILE_SIZE + 1}

\* str(e) of what the engine or the file system raises.
EngineErrors == {"Invalid data found when processing input", "CUDA out of memory"}
ReadError == "read of closed file"
CreateError == "No usable temporary file name found"
WriteError == "No space left on device"
MissingFileError == "No such file or directory"

Whitespace == {" ", "\t", "\n"}

\* An Optional[list]: None, or the list wrapped.
None == <<>>
Some(l) == <<l>>

WordA == [start |-> 0, end |-> 1, word |-> " a", probability |-> 9]
WordB == [start |-> 1, end |-> 2, word |-> "b", probability |-> 5]

Seg(s, e, t, w) ==
    [start |-> s, end |-> e, text |-> t, avg_logprob |-> 0 - s - 1,
     no_speech_prob |-> e, words |-> w]

\* What the engine may emit: texts with space on either side, inside, only
\* space, empty; words absent, empty, one, several.
EngineSegments ==
    { Seg(0, 2, <<" ", "a", "\t">>, Some(<<WordA, WordB>>)),
      Seg(2, 3, <<"b", " ">>, None),
      Seg(3, 3, <<" ", "\n">>, Some(<<WordB>>)),
      Seg(3, 4, <<>>, Some(<<>>)),
      Seg(4, 6, <<"a", " ", "b">>, Some(<<WordB, WordA>>)) }

ConcSegments == { Seg(0, 2, <<" ", "a", "\t">>, Some(<<WordA, WordB>>)) }

\* The engine's summary of a transcription.
Info == [language |-> "he", duration |-> 6]

(***************************************************************************)
(* str.strip() and str.join(), as CPython computes them.                   *)
(***************************************************************************)
RECURSIVE LeftIndex(_, _)
\* The first index from i on that holds no whitespace (Len(s) + 1 if none).
LeftIndex(s, i) ==
    IF i <= Len(s) /\ s[i] \in Whitespace THEN LeftIndex(s, i + 1) ELSE i

RECURSIVE RightIndex(_, _, _)
\* The last index from j down to i that holds no whitespace (i - 1 if none).
RightIndex(s, i, j) ==
    IF j >= i /\ s[j] \in Whitespace THEN RightIndex(s, i, j - 1) ELSE j

Strip(s) ==
    LET i == LeftIndex(s, 1)
        j == RightIndex(s, i, Len(s))
    IN  SubSeq(s, i, j)

RECURSIVE JoinFrom(_, _, _, _)
JoinFrom(sep, parts, k, acc) ==
    IF k > Len(parts) THEN acc
    ELSE JoinFrom(sep, parts, k + 1, acc \o sep \o parts[k])

\* The parts run together.
JoinNoSeparator(sep, parts) == JoinFrom(<<>>, parts, 1, <<>>)

Join(sep, parts) ==
    IF parts = <<>> THEN <<>> ELSE JoinFrom(sep, parts, 2, parts[1])

(***************************************************************************)
(* The normaliser: the loop over raw_segments and the response.            *)
(***************************************************************************)
\* Python's truth value of segment.words.
Truthy(w) == w # None /\ w[1] # <<>>

WordData(w) ==
    [start |-> w.start, end |-> w.end, word |-> w.word,
     probability |-> w.probability]

\* The words copied whenever the engine gave any.
SegmentDataAlwaysWords(segment, word_timestamps) ==
    LET segment_data ==
            [start |-> segment.start, end |-> segment.end,
             text |-> Strip(segment.text),
             avg_logprob |-> segment.avg_logprob,
             no_speech_prob |-> segment.no_speech_prob]
    IN  IF Truthy(segment.words)
        THEN [k \in DOMAIN segment_data \cup {"words"} |->
                 IF k = "words"
                 THEN [i \in 1..Len(segment.words[1]) |->
                          WordData(segment.words[1][i])]
                 ELSE segment_data[k]]
        ELSE segment_data

\* The confidence fields and the words given only with word_timestamps.
SegmentDataMinimal(segment, word_timestamps) ==
    IF word_timestamps
    THEN SegmentDataAlwaysWords(segment, word_timestamps)
    ELSE [start |-> segment.start, end |-> segment.end,
          text |-> Strip(segment.text)]

SegmentData(segment, word_timestamps) ==
    LET segment_data ==
            [start |-> segment.start, end |-> segment.end,
             text |-> Strip(segment.text),
             avg_logprob |-> segment.avg_logprob,
             no_speech_prob |-> segment.no_speech_prob]
    IN  IF word_timestamps /\ Truthy(segment.words)
        THEN [k \in DOMAIN segment_data \cup {"words"} |->
                 IF k = "words"
                 THEN [i \in 1..Len(segment.words[1]) |->
                          WordData(segment.words[1][i])]
                 ELSE segment_data[k]]
        ELSE segment_data

RECURSIVE SegmentLoop(_, _, _, _)
\* A loop that passes over the segments whose text is only whitespace.
SegmentLoopDropsEmpty(raw_segments, word_timestamps, k, lists) ==
    IF k > Len(raw_segments) THEN lists
    ELSE IF Strip(raw_segments[k].text) = <<>>
    THEN SegmentLoop(raw_segments, word_timestamps, k + 1, lists)
    ELSE SegmentLoop(raw_segments, word_timestamps, k + 1,
            [segment_list |->
                 Append(lists.segment_list,
                        SegmentData(raw_segments[k], word_timestamps)),
             full_text_parts |->
                 Append(lists.full_text_parts, Strip(raw_segments[k].text))])

\* The for loop: from raw_segments[k] on, appending to both lists.
SegmentLoop(raw_segments, word_timestamps, k, lists) ==
    IF k > Len(raw_segments) THEN lists
    ELSE SegmentLoop(raw_segments, word_timestamps, k + 1,
            [segment_list |->
                 Append(lists.segment_list,
                        SegmentData(raw_segments[k], word_timestamps)),
             full_text_parts |->
                 Append(lists.full_text_parts, Strip(raw_segments[k].text))])

TranscriptionResponse(raw_segments, info, word_timestamps) ==
    LET lists == SegmentLoop(raw_segments, word_timestamps, 1,
                     [segment_list |-> <<>>, full_text_parts |-> <<>>])
    IN  [kind |-> "result", status |-> 200,
         text |-> Join(<<" ">>, lists.full_text_parts),
         language |-> info.language,
         duration |-> info.duration,
         segments |-> lists.segment_list]

HTTPException(status_code, detail) ==
    [kind |-> "error", status |-> status_code, detail |-> detail]

\* An exception that leaves transcribe_audio as it was raised.
Escaped(message) == [kind |-> "fault", detail |-> message]

NoResponse == [kind |-> "none"]


(***************************************************************************)
(* The state.                                                              *)
(***************************************************************************)
VARIABLES
    model,            \* the global engine handle: "None" or "WhisperModel"
    lifespan,         \* "pending", "running" or "failed"
    loop,             \* the request whose handler holds the event loop's thread, or 0
    health,           \* the last response of GET /health
    disk,             \* the names that exist in the temporary directory
    pc,               \* where each request's handler stands
    upload,           \* file: its filename and the length of its body
    word_timestamps,  \* the form field
    content,          \* len(content) once file.read() returned, else -1
    temp_file,        \* the name NamedTemporaryFile created, or Unbound
    temp_path,        \* the local temp_path, or Unbound
    written,          \* the bytes in the request's file once closed, else -1
    calls,            \* how many asyncio.to_thread invocations the request made
    future,           \* the outcome of the invocation the handler awaits
    segments_iter,    \* the engine's generator: who made it, who holds it, who runs it
    emitted,          \* the segments the generator has yielded, in order
    response,         \* what transcribe_audio returned or raised
    cleanup           \* what the finally block did: "skipped", "removed", "raised"

vars == <<model, lifespan, loop, health, disk, pc, upload, word_timestamps,
          content, temp_file, temp_path, written, calls, future,
          segments_iter, emitted, response, cleanup>>

handlerVars == <<upload, word_timestamps, content, temp_file, temp_path,
                 written, calls, future, segments_iter, emitted, response,
                 cleanup>>

NoUpload == [filename |-> "", size |-> 0]
NoFuture == [state |-> "none"]
NoIter == [producer |-> 0, consumer |-> 0, handed_back |-> FALSE]

Init ==
    /\ model = "None"
    /\ lifespan = "pending"
    /\ loop = 0
    /\ health = [status |-> "none"]
    /\ disk = {}
    /\ pc = [r \in Requests |-> "idle"]
    /\ upload = [r \in Requests |-> NoUpload]
    /\ word_timestamps = [r \in Requests |-> FALSE]
    /\ content = [r \in Requests |-> 0 - 1]
    /\ temp_file = [r \in Requests |-> Unbound]
    /\ temp_path = [r \in Requests |-> Unbound]
    /\ written = [r \in Requests |-> 0 - 1]
    /\ calls = [r \in Requests |-> 0]
    /\ future = [r \in Requests |-> NoFuture]
    /\ segments_iter = [r \in Requests |-> NoIter]
    /\ emitted = [r \in Requests |-> <<>>]
    /\ response = [r \in Requests |-> NoResponse]
    /\ cleanup = [r \in Requests |-> "none"]

(***************************************************************************)
(* The environment's operations.                                           *)
(***************************************************************************)
\* A name generator that may hand out a name that exists.
NewNamesReuses(d) == Paths

\* A name generator that hands out one fixed name.
NewNamesFixed(d) == {"tmp1"}

\* tempfile.NamedTemporaryFile: the names it may create (opened O_EXCL, so
\* never one that exists).
NewNames(d) == Paths \ d

\* os.unlink(path): the file is removed, or the call raises and the
\* directory is as it was.
Unlink(path, d) ==
    {[disk |-> d \ {path}, raised |-> FALSE], [disk |-> d, raised |-> TRUE]}

\* A finally block that leaves the file where it is.
FinallyForgets(path, d) == {[disk |-> d, unlink |-> "skipped"]}

\* The finally block: os.unlink(temp_path) if temp_path is in locals(), what
\* it raises passed over.
Finally(path, d) ==
    IF path = Unbound
    THEN {[disk |-> d, unlink |-> "skipped"]}
    ELSE {[disk |-> o.disk, unlink |-> IF o.raised THEN "raised" ELSE "removed"] :
             o \in Unlink(path, d)}

\* A removal that raised takes the place of what the handler was about to
\* return or raise.
AfterCleanupEscalates(primary, unlink) ==
    IF unlink = "raised" THEN Escaped("unlink: Permission denied") ELSE primary

\* try: os.unlink(temp_path) except Exception: pass -- what leaves the handler
\* after the finally block is what was on its way out before it.
AfterCleanup(primary, unlink) == primary

\* A write that stops one byte short and returns.
WriteShort(n) == n - 1

\* temp_file.write(content) followed by the close at the end of the with
\* block: the bytes in the file.
Write(n) == n

\* temp_file.write(content) raises: the bytes that reached the file.
PartialWrite(n) == 0

\* The filename checked before the engine handle.
PrecheckFilenameFirst(m, filename) ==
    IF filename = "" THEN HTTPException(400, "No filename provided")
    ELSE IF m = "None" THEN HTTPException(503, "Model not loaded")
    ELSE NoResponse

\* The filename not checked at all.
PrecheckAcceptsEmpty(m, filename) ==
    IF m = "None" THEN HTTPException(503, "Model not loaded") ELSE NoResponse

\* The two checks before the body is read: the exception raised, or none.
Precheck(m, filename) ==
    IF m = "None" THEN HTTPException(503, "Model not loaded")
    ELSE IF filename = "" THEN HTTPException(400, "No filename provided")
    ELSE NoResponse

\* The limit itself rejected too.
OversizedInclusive(n) == n >= MAX_FILE_SIZE

\* len(content) > MAX_FILE_SIZE
Oversized(n) == n > MAX_FILE_SIZE

\* The call made on the loop's own thread: the handler keeps it.
CallInline(r) == r

\* await asyncio.to_thread(...): who holds the loop's thread while the call
\* runs.  The handler is suspended, the loop is free.
ToThread(r) == 0

\* A 500 that does not say what the engine said.
TranscriptionFailedOpaque(e) == HTTPException(500, "Internal Server Error")

\* except Exception as e: the response.
TranscriptionFailed(e) == HTTPException(500, "Transcription failed: " \o e)

TooLarge ==
    HTTPException(413, "File too large. Maximum size is "
                       \o ToString(MAX_FILE_SIZE \div (1024 * 1024)) \o "MB")

InEngine(r) == pc[r] \in {"transcribing", "collecting"}

(***************************************************************************)
(* lifespan and GET /health.                                               *)
(***************************************************************************)
\* lifespan up to its yield: WhisperModel(...) returns or raises.  What
\* follows the yield only logs.
Lifespan ==
    /\ lifespan = "pending"
    /\ loop = 0
    /\ \/ model' = "WhisperModel" /\ lifespan' = "running"
       \/ model' = model /\ lifespan' = "failed"
    /\ UNCHANGED <<loop, health, disk, pc, handlerVars>>

\* A health check that loads the engine when it finds none.
health_check_loads ==
    /\ lifespan # "failed"
    /\ loop = 0
    /\ model' = "WhisperModel"
    /\ health' = [status |-> "healthy", model_loaded |-> TRUE]
    /\ UNCHANGED <<lifespan, loop, disk, pc, handlerVars>>

health_check ==
    /\ lifespan # "failed"
    /\ loop = 0
    /\ health' = [status |-> "healthy", model_loaded |-> model # "None"]
    /\ UNCHANGED <<model, lifespan, loop, disk, pc, handlerVars>>

\* GET /: a static description, nothing read and nothing written.
root ==
    /\ lifespan # "failed"
    /\ loop = 0
    /\ UNCHANGED vars

(***************************************************************************)
(* POST /transcribe, one action per stretch between awaits, and the two    *)
(* offloaded calls.                                                        *)
(***************************************************************************)
\* From the call of the handler to await file.read().
Arrive(r) ==
    /\ pc[r] = "idle"
    /\ lifespan # "failed"
    /\ loop = 0
    /\ \E f \in Filenames, n \in Sizes, w \in BOOLEAN :
          /\ upload' = [upload EXCEPT ![r] = [filename |-> f, size |-> n]]
          /\ word_timestamps' = [word_timestamps EXCEPT ![r] = w]
          /\ response' = [response EXCEPT ![r] = Precheck(model, f)]
          /\ pc' = [pc EXCEPT ![r] = IF Precheck(model, f) = NoResponse
                                     THEN "reading" ELSE "done"]
    /\ UNCHANGED <<model, lifespan, loop, health, disk, content, temp_file,
                   temp_path, written, calls, future, segments_iter, emitted,
                   cleanup>>

\* file.read() raises: nothing in the handler catches it.
ReadFails(r) ==
    /\ pc[r] = "reading"
    /\ loop = 0
    /\ response' = [response EXCEPT ![r] = Escaped(ReadError)]
    /\ pc' = [pc EXCEPT ![r] = "done"]
    /\ UNCHANGED <<model, lifespan, loop, health, disk, upload,
                   word_timestamps, content, temp_file, temp_path, written,
                   calls, future, segments_iter, emitted, cleanup>>

\* file.read() returns and len(content) is over the limit.
RejectSize(r) ==
    /\ pc[r] = "reading"
    /\ loop = 0
    /\ Oversized(upload[r].size)
    /\ content' = [content EXCEPT ![r] = upload[r].size]
    /\ response' = [response EXCEPT ![r] = TooLarge]
    /\ pc' = [pc EXCEPT ![r] = "done"]
    /\ UNCHANGED <<model, lifespan, loop, health, disk, upload,
                   word_timestamps, temp_file, temp_path, written, calls,
                   future, segments_iter, emitted, cleanup>>

\* file.read() returns, the size is accepted, and the try block runs up to
\* the first await asyncio.to_thread: the file is created and written, or
\* one of the two raises.
Stage(r) ==
    /\ pc[r] = "reading"
    /\ loop = 0
    /\ ~Oversized(upload[r].size)
    /\ content' = [content EXCEPT ![r] = upload[r].size]
    /\ \/ \* NamedTemporaryFile raises: temp_path is not in locals()
          /\ \E f \in Finally(Unbound, disk) :
                /\ disk' = f.disk
                /\ cleanup' = [cleanup EXCEPT ![r] = f.unlink]
                /\ response' = [response EXCEPT
                      ![r] = AfterCleanup(TranscriptionFailed(CreateError),
                                          f.unlink)]
          /\ pc' = [pc EXCEPT ![r] = "done"]
          /\ UNCHANGED <<loop, temp_file, temp_path, written, calls, future>>
       \/ \* temp_file.write raises: the file exists, short of the payload,
          \* and temp_path is not bound
          \E p \in NewNames(disk) :
             /\ temp_file' = [temp_file EXCEPT ![r] = p]
             /\ written' = [written EXCEPT ![r] = PartialWrite(upload[r].size)]
             /\ \E f \in Finally(Unbound, disk \cup {p}) :
                   /\ disk' = f.disk
                   /\ cleanup' = [cleanup EXCEPT ![r] = f.unlink]
                   /\ response' = [response EXCEPT
                         ![r] = AfterCleanup(TranscriptionFailed(WriteError),
                                             f.unlink)]
             /\ pc' = [pc EXCEPT ![r] = "done"]
             /\ UNCHANGED <<loop, temp_path, calls, future>>
       \/ \* staged: model.transcribe is handed to a worker thread
          \E p \in NewNames(disk) :
             /\ temp_file' = [temp_file EXCEPT ![r] = p]
             /\ temp_path' = [temp_path EXCEPT ![r] = p]
             /\ written' = [written EXCEPT ![r] = Write(upload[r].size)]
             /\ disk' = disk \cup {p}
             /\ calls' = [calls EXCEPT ![r] = calls[r] + 1]
             /\ future' = [future EXCEPT ![r] = [state |-> "pending"]]
             /\ loop' = ToThread(r)
             /\ pc' = [pc EXCEPT ![r] = "transcribing"]
             /\ UNCHANGED <<response, cleanup>>
    /\ UNCHANGED <<model, lifespan, health, upload, word_timestamps,
                   segments_iter, emitted>>

\* The worker thread runs model.transcribe(temp_path, ...): it opens the
\* file and returns the generator and the info, or raises.
EngineTranscribe(r) ==
    /\ pc[r] = "transcribing"
    /\ \/ /\ temp_path[r] \notin disk
          /\ future' = [future EXCEPT
                ![r] = [state |-> "exception", error |-> MissingFileError]]
          /\ UNCHANGED segments_iter
       \/ /\ temp_path[r] \in disk
          /\ \E e \in EngineErrors :
                future' = [future EXCEPT
                    ![r] = [state |-> "exception", error |-> e]]
          /\ UNCHANGED segments_iter
       \/ /\ temp_path[r] \in disk
          /\ future' = [future EXCEPT ![r] = [state |-> "result"]]
          /\ segments_iter' = [segments_iter EXCEPT
                ![r] = [producer |-> calls[r], consumer |-> 0,
                        handed_back |-> FALSE]]
    /\ pc' = [pc EXCEPT ![r] = "transcribed"]
    /\ UNCHANGED <<model, lifespan, loop, health, disk, upload,
                   word_timestamps, content, temp_file, temp_path, written,
                   calls, emitted, response, cleanup>>

\* The handler resumes from the first to_thread: the exception goes to the
\* except clause and the finally block, or the generator is bound to
\* segments_iter and list(segments_iter) is handed to a worker thread.
ResumeTranscribed(r) ==
    /\ pc[r] = "transcribed"
    /\ loop \in {0, r}
    /\ IF future[r].state = "exception"
       THEN /\ \E f \in Finally(temp_path[r], disk) :
                  /\ disk' = f.disk
                  /\ cleanup' = [cleanup EXCEPT ![r] = f.unlink]
                  /\ response' = [response EXCEPT
                        ![r] = AfterCleanup(
                                   TranscriptionFailed(future[r].error),
                                   f.unlink)]
            /\ pc' = [pc EXCEPT ![r] = "done"]
            /\ loop' = 0
            /\ UNCHANGED <<calls, future, segments_iter>>
       ELSE /\ segments_iter' = [segments_iter EXCEPT ![r].handed_back = TRUE]
            /\ calls' = [calls EXCEPT ![r] = calls[r] + 1]
            /\ future' = [future EXCEPT ![r] = [state |-> "pending"]]
            /\ loop' = ToThread(r)
            /\ pc' = [pc EXCEPT ![r] = "collecting"]
            /\ UNCHANGED <<disk, response, cleanup>>
    /\ UNCHANGED <<model, lifespan, health, upload, word_timestamps, content,
                   temp_file, temp_path, written, emitted>>

\* The worker thread runs list(segments_iter): one step of the generator,
\* which yields a segment, raises, or is exhausted.
EngineNext(r, segments, max) ==
    /\ pc[r] = "collecting"
    /\ segments_iter' = [segments_iter EXCEPT ![r].consumer = calls[r]]
    /\ \/ /\ Len(emitted[r]) < max
          /\ \E s \in segments :
                emitted' = [emitted EXCEPT ![r] = Append(emitted[r], s)]
          /\ UNCHANGED <<pc, future>>
       \/ /\ \E e \in EngineErrors :
                future' = [future EXCEPT
                    ![r] = [state |-> "exception", error |-> e]]
          /\ pc' = [pc EXCEPT ![r] = "collected"]
          /\ UNCHANGED emitted
       \/ /\ future' = [future EXCEPT ![r] = [state |-> "result"]]
          /\ pc' = [pc EXCEPT ![r] = "collected"]
          /\ UNCHANGED emitted
    /\ UNCHANGED <<model, lifespan, loop, health, disk, upload,
                   word_timestamps, content, temp_file, temp_path, written,
                   calls, response, cleanup>>

\* The handler resumes from the second to_thread: the exception goes to
\* the except clause, or raw_segments is normalised and returned; the
\* finally block runs either way.
ResumeCollected(r) ==
    /\ pc[r] = "collected"
    /\ loop \in {0, r}
    /\ \E f \in Finally(temp_path[r], disk) :
          /\ disk' = f.disk
          /\ cleanup' = [cleanup EXCEPT ![r] = f.unlink]
          /\ response' = [response EXCEPT
                ![r] = AfterCleanup(
                           IF future[r].state = "exception"
                           THEN TranscriptionFailed(future[r].error)
                           ELSE TranscriptionResponse(emitted[r], Info,
                                                      word_timestamps[r]),
                           f.unlink)]
    /\ pc' = [pc EXCEPT ![r] = "done"]
    /\ loop' = 0
    /\ UNCHANGED <<model, lifespan, health, upload, word_timestamps, content,
                   temp_file, temp_path, written, calls, future,
                   segments_iter, emitted>>

transcribe_audio(r, segments, max) ==
    \/ Arrive(r)
    \/ ReadFails(r)
    \/ RejectSize(r)
    \/ Stage(r)
    \/ EngineTranscribe(r)
    \/ ResumeTranscribed(r)
    \/ EngineNext(r, segments, max)
    \/ ResumeCollected(r)

(***************************************************************************)
(* Spec: one request, the engine emitting up to MaxSegs segments.          *)
(* SpecConc: the requests of Requests in flight together, the engine       *)
(* emitting up to MaxSegsConc segments each.                               *)
(***************************************************************************)
Next ==
    \/ Lifespan
    \/ health_check
    \/ root
    \/ transcribe_audio(1, EngineSegments, MaxSegs)

NextConc ==
    \/ Lifespan
    \/ health_check
    \/ root
    \/ \E r \in Requests : transcribe_audio(r, ConcSegments, MaxSegsConc)

Spec == Init /\ [][Next]_vars

SpecConc == Init /\ [][NextConc]_vars

(***************************************************************************)
(* Properties.                                                             *)
(***************************************************************************)
Done(r) == pc[r] = "done"
Staged(r) == temp_path[r] # Unbound
Status(r, code) == response[r].kind \in {"error", "result"} /\ response[r].status = code

\* C1, as stated: once a request that was staged has its response, its
\* staged file is not on disk.
C1_StagedFileGoneAfterResponse ==
    \A r \in Requests : Done(r) /\ Staged(r) => temp_path[r] \notin disk

\* C1, amended: once a request that was staged has its response (200, or
\* 500 after an engine failure in either offloaded call), the finally block
\* has called os.unlink on its file, and the file is not on disk unless
\* that call raised.
C1_StagedFileUnlinkedAfterResponse ==
    \A r \in Requests :
        Done(r) /\ Staged(r) =>
            /\ response[r].kind \in {"result", "error"}
            /\ cleanup[r] \in {"removed", "raised"}
            /\ cleanup[r] = "removed" => temp_path[r] \notin disk

\* C1, witness: a staged request answered 500 after the engine raised, its
\* file removed.
C1_Witness ==
    /\ Done(1) /\ Staged(1) /\ Status(1, 500)
    /\ cleanup[1] = "removed" /\ temp_path[1] \notin disk

\* C2: an exception of the engine, raised by model.transcribe or while the
\* generator is consumed, ends the request with a 500 whose detail is
\* "Transcription failed: " and the engine's message; it never leaves the
\* handler as it was raised.
C2_EngineFailureIs500 ==
    \A r \in Requests :
        Done(r) /\ future[r].state = "exception" =>
            /\ response[r].kind = "error"
            /\ response[r].status = 500
            /\ response[r].detail = "Transcription failed: " \o future[r].error

\* C2, witness: the generator raised after yielding a segment and the
\* request was answered 500 with the engine's message.
C2_Witness ==
    /\ Done(1) /\ calls[1] = 2 /\ Len(emitted[1]) > 0
    /\ future[1] = [state |-> "exception", error |-> "CUDA out of memory"]
    /\ response[1] = HTTPException(500, "Transcription failed: CUDA out of memory")

\* C3: while the engine handle is None, every answer GET /health has given
\* says model_loaded false, and every POST /transcribe that has arrived
\* was answered 503 with its body unread and no temporary file created,
\* whatever its filename and size.
C3_NotLoadedIs503BeforeStaging ==
    model = "None" =>
        /\ health.status = "healthy" => health.model_loaded = FALSE
        /\ disk = {}
        /\ \A r \in Requests :
              pc[r] # "idle" =>
                  /\ Done(r)
                  /\ response[r] = HTTPException(503, "Model not loaded")
                  /\ content[r] = 0 - 1
                  /\ temp_file[r] = Unbound
                  /\ temp_path[r] = Unbound

\* C3, witness: the handle is None, /health said so, and an upload with an
\* empty filename and a body over the limit was answered 503.
C3_Witness ==
    /\ model = "None"
    /\ health = [status |-> "healthy", model_loaded |-> FALSE]
    /\ Done(1) /\ Status(1, 503)
    /\ upload[1].filename = "" /\ upload[1].size > MAX_FILE_SIZE

\* C4, as stated: every upload with an empty filename is answered 400.
C4_EmptyFilenameIs400 ==
    \A r \in Requests :
        pc[r] # "idle" /\ upload[r].filename = "" => Status(r, 400)

\* C4, amended: an upload with an empty filename that arrives while the
\* engine handle is loaded is answered 400, whatever its size and
\* word_timestamps, before its body is read.
C4_EmptyFilenameIs400WhenLoaded ==
    [][\A r \in Requests :
          (pc[r] = "idle" /\ pc'[r] # "idle" /\ upload'[r].filename = ""
             /\ model # "None")
          => /\ pc'[r] = "done"
             /\ response'[r] = HTTPException(400, "No filename provided")
             /\ content'[r] = 0 - 1]_vars

\* C4, witness: an upload with an empty filename and a body over the limit
\* was answered 400.
C4_Witness ==
    /\ Done(1) /\ Status(1, 400)
    /\ upload[1].filename = "" /\ upload[1].size > MAX_FILE_SIZE

\* C5, as stated: every upload whose length exceeds MAX_FILE_SIZE is
\* answered 413.
C5_OversizedIs413 ==
    \A r \in Requests :
        Done(r) /\ upload[r].size > MAX_FILE_SIZE => Status(r, 413)

\* C5, amended: an upload whose body the handler has read (the engine was
\* loaded, the filename is not empty, file.read() returned) is answered
\* 413 with "File too large. Maximum size is 50MB" if its length exceeds
\* MAX_FILE_SIZE, and is not answered 413 otherwise, a length of exactly
\* MAX_FILE_SIZE included.
C5_OversizedIs413OnceRead ==
    \A r \in Requests :
        content[r] # 0 - 1 =>
            /\ model # "None" /\ upload[r].filename # ""
            /\ content[r] = upload[r].size
            /\ IF content[r] > 50 * 1024 * 1024
               THEN /\ Done(r)
                    /\ response[r] = HTTPException(413,
                           "File too large. Maximum size is 50MB")
               ELSE ~Status(r, 413)

\* C5, witness: a body of MAX_FILE_SIZE + 1 bytes was read and answered
\* 413.
C5_Witness ==
    /\ Done(1) /\ content[1] = MAX_FILE_SIZE + 1 /\ Status(1, 413)

\* t is s without its leading and trailing whitespace: a stretch of s with
\* only whitespace on either side, itself empty or with none at its ends.
IsTrimOf(t, s) ==
    \E i \in 1..(Len(s) + 1), j \in 0..Len(s) :
        /\ t = SubSeq(s, i, j)
        /\ \A k \in 1..Len(s) : (k < i \/ k > j) => s[k] \in Whitespace
        /\ t = <<>> \/ (t[1] \notin Whitespace /\ t[Len(t)] \notin Whitespace)

\* The trimmed texts of the segments, in the order of emission.
TrimmedTexts(segments) ==
    [i \in 1..Len(segments) |->
        CHOOSE t \in {SubSeq(segments[i].text, a, b) :
                         a \in 1..(Len(segments[i].text) + 1),
                         b \in 0..Len(segments[i].text)} :
            IsTrimOf(t, segments[i].text)]

RECURSIVE LengthBefore(_, _)
\* Where part i starts in the joined text: the lengths of the parts before
\* it and one separator after each.
LengthBefore(parts, i) ==
    IF i = 1 THEN 0 ELSE LengthBefore(parts, i - 1) + Len(parts[i - 1]) + 1

\* text is the parts in order with exactly one space between neighbours.
IsSpaceJoined(text, parts) ==
    /\ Len(text) = IF parts = <<>> THEN 0
                   ELSE LengthBefore(parts, Len(parts)) + Len(parts[Len(parts)])
    /\ \A i \in 1..Len(parts) :
          /\ SubSeq(text, LengthBefore(parts, i) + 1,
                    LengthBefore(parts, i) + Len(parts[i])) = parts[i]
          /\ i > 1 => text[LengthBefore(parts, i)] = " "

Succeeded(r) == Done(r) /\ response[r].kind = "result"

\* C6: the text of a successful response is the trimmed texts of the
\* emitted segments, in emission order, with exactly one space between
\* consecutive segments (none for no segment; an empty trimmed text still
\* takes its place between two spaces).
C6_TextIsSpaceJoinedTrimmedTexts ==
    \A r \in Requests :
        Succeeded(r) => IsSpaceJoined(response[r].text, TrimmedTexts(emitted[r]))

\* C6, witness: the segments " a<tab>", "" and "b " gave the text "a  b".
C6_Witness ==
    /\ Succeeded(1)
    /\ Len(emitted[1]) = 3
    /\ emitted[1][1].text = <<" ", "a", "\t">>
    /\ emitted[1][2].text = <<>>
    /\ emitted[1][3].text = <<"b", " ">>
    /\ response[1].text = <<"a", " ", " ", "b">>

\* C7: the segments of a successful response are as many as the engine
\* emitted, the i-th with the start, the end and the trimmed text of the
\* i-th emitted: none dropped, repeated, merged or moved.
C7_SegmentsMatchEmission ==
    \A r \in Requests :
        Succeeded(r) =>
            /\ Len(response[r].segments) = Len(emitted[r])
            /\ \A i \in 1..Len(emitted[r]) :
                  /\ response[r].segments[i].start = emitted[r][i].start
                  /\ response[r].segments[i].end = emitted[r][i].end
                  /\ IsTrimOf(response[r].segments[i].text, emitted[r][i].text)

\* C7, witness: the engine emitted the same whitespace-only segment twice
\* and then an earlier one, and the response has the three in that order.
C7_Witness ==
    /\ Succeeded(1)
    /\ Len(emitted[1]) = 3
    /\ emitted[1][1] = emitted[1][2]
    /\ emitted[1][1].text = <<" ", "\n">>
    /\ emitted[1][3].start < emitted[1][1].start
    /\ Len(response[1].segments) = 3
    /\ response[1].segments[3].start = emitted[1][3].start

\* The engine's segment has a word list that is not empty.
HasWords(segment) == segment.words # None /\ Len(segment.words[1]) > 0

\* C8: in a successful response a segment has a words field exactly when
\* word_timestamps was true and the engine's segment has a word list that
\* is not empty, and then the field holds the engine's words in the
\* engine's order.
C8_WordsOnlyWhenRequested ==
    \A r \in Requests :
        Succeeded(r) =>
            \A i \in 1..Len(response[r].segments) :
                LET out == response[r].segments[i]
                    seg == emitted[r][i]
                IN  /\ ("words" \in DOMAIN out)
                        <=> (word_timestamps[r] /\ HasWords(seg))
                    /\ "words" \in DOMAIN out =>
                          /\ Len(out.words) = Len(seg.words[1])
                          /\ \A k \in 1..Len(out.words) :
                                /\ out.words[k].start = seg.words[1][k].start
                                /\ out.words[k].end = seg.words[1][k].end
                                /\ out.words[k].word = seg.words[1][k].word
                                /\ out.words[k].probability
                                      = seg.words[1][k].probability

\* C8, witness: word_timestamps was false, the engine's segment carried two
\* words, and the response's segment has no words field.
C8_Witness ==
    /\ Succeeded(1)
    /\ ~word_timestamps[1]
    /\ Len(emitted[1]) > 0
    /\ emitted[1][1].words = Some(<<WordA, WordB>>)
    /\ "words" \notin DOMAIN response[1].segments[1]

\* C9, as stated: the generator is run only by the offloaded invocation
\* that made it, and is never handed back to the handler in between.
C9_ConsumedByProducingInvocation ==
    \A r \in Requests :
        segments_iter[r].consumer # 0 =>
            /\ segments_iter[r].consumer = segments_iter[r].producer
            /\ ~segments_iter[r].handed_back

\* C10: while a request's engine call or its segment collection runs on a
\* worker thread, the loop's thread is free: GET /health can be answered,
\* another POST /transcribe can be accepted, and one that is reading its
\* body can finish its validation (rejected, failed or staged).
C10_LoopFreeWhileEngineRuns ==
    \A r \in Requests :
        InEngine(r) =>
            /\ loop = 0
            /\ ENABLED health_check
            /\ \A q \in Requests \ {r} :
                  /\ pc[q] = "idle" => ENABLED Arrive(q)
                  /\ pc[q] = "reading" =>
                        ENABLED (ReadFails(q) \/ RejectSize(q) \/ Stage(q))

\* C10, witness: request 1 is collecting segments on a worker thread,
\* /health has been answered, and request 2 has been accepted, validated
\* and staged and is in the engine too.
C10_Witness ==
    /\ pc[1] = "collecting" /\ Len(emitted[1]) > 0
    /\ pc[2] = "transcribing"
    /\ health = [status |-> "healthy", model_loaded |-> TRUE]

\* C11, as stated: every request that has ended was given a structured
\* response with status 200, 400, 413, 500 or 503; no exception left
\* transcribe_audio as it was raised.
C11_AlwaysStructuredResponse ==
    \A r \in Requests :
        Done(r) =>
            /\ response[r].kind \in {"result", "error"}
            /\ response[r].status \in {200, 400, 413, 500, 503}

\* The handler is about to resume from an offloaded call that has ended.
Resuming(r) == pc[r] \in {"transcribed", "collected"}

\* What the handler is about to send when it resumes: the 500 with the
\* engine's message, or the normalised result.
Primary(r) ==
    IF future[r].state = "exception"
    THEN HTTPException(500, "Transcription failed: " \o future[r].error)
    ELSE TranscriptionResponse(emitted[r], Info, word_timestamps[r])

\* C12: a removal that raises is swallowed.  A handler that ends sends what
\* it was about to send before the finally block, whether os.unlink then
\* removed the file or raised; and a request whose removal raised was
\* answered with its 200 or its 500, never with the removal's failure.
C12_UnlinkFailureSwallowed ==
    /\ [][\A r \in Requests :
             (Resuming(r) /\ pc'[r] = "done") =>
                 /\ cleanup'[r] \in {"removed", "raised"}
                 /\ response'[r] = Primary(r)]_vars
    /\ [](\A r \in Requests :
             Done(r) /\ cleanup[r] = "raised" =>
                 /\ response[r].kind \in {"result", "error"}
                 /\ response[r].status \in {200, 500}
                 /\ temp_path[r] \in disk)

\* C12, witness: the removal raised, the file is still on disk, and the
\* request was answered 200 with its two segments.
C12_Witness ==
    /\ Done(1) /\ cleanup[1] = "raised" /\ temp_path[1] \in disk
    /\ Status(1, 200) /\ Len(response[1].segments) = 2

InFlight(r) == Staged(r) /\ ~Done(r)

\* C13: a staged file belongs to exactly one request in flight: the path a
\* request in flight holds is the name it created, no other request in
\* flight holds or created it, and a step that removes a name from disk is
\* the finally block of the one request in flight whose temp_path it is.
C13_StagedFileHasOneOwner ==
    /\ [](\A r \in Requests :
             InFlight(r) =>
                 /\ temp_path[r] = temp_file[r]
                 /\ \A q \in Requests \ {r} :
                       ~Done(q) => /\ temp_path[q] # temp_path[r]
                                   /\ temp_file[q] # temp_path[r])
    /\ [][\A p \in disk \ disk' :
             \E r \in Requests :
                 /\ InFlight(r) /\ pc'[r] = "done"
                 /\ temp_path[r] = p
                 /\ \A q \in Requests \ {r} :
                       ~Done(q) => temp_path[q] # p]_vars

\* C13, witness: both requests are in flight with their own staged files,
\* and the first one's file has been handed to the engine twice.
C13_Witness ==
    /\ pc[1] = "collecting" /\ pc[2] = "transcribed"
    /\ temp_path[1] \in disk /\ temp_path[2] \in disk
    /\ temp_path[1] # temp_path[2]

MinimalSegmentFields == {"start", "end", "text"}
ExtendedSegmentFields == MinimalSegmentFields \cup {"avg_logprob", "no_speech_prob"}

\* C14, as stated: there is a minimal shape a request can be answered in.
\* The one input of the handler that changes the shape is word_timestamps:
\* without it a successful response omits duration and every segment omits
\* avg_logprob, no_speech_prob and words.
C14_MinimalShapeSelectable ==
    \A r \in Requests :
        Succeeded(r) /\ ~word_timestamps[r] =>
            /\ "duration" \notin DOMAIN response[r]
            /\ \A i \in 1..Len(response[r].segments) :
                  DOMAIN response[r].segments[i] = MinimalSegmentFields

\* C14, amended: there is one shape.  Every successful response carries the
\* duration the engine reported, and every segment carries the engine's
\* avg_logprob and no_speech_prob, whatever word_timestamps is; words is
\* the only field that may be absent.
C14_ExtendedShapeOnly ==
    \A r \in Requests :
        Succeeded(r) =>
            /\ DOMAIN response[r] =
                   {"kind", "status", "text", "language", "duration", "segments"}
            /\ response[r].duration = Info.duration
            /\ response[r].language = Info.language
            /\ \A i \in 1..Len(response[r].segments) :
                  LET d == response[r].segments[i] IN
                  /\ DOMAIN d \in {ExtendedSegmentFields,
                                   ExtendedSegmentFields \cup {"words"}}
                  /\ d.avg_logprob = emitted[r][i].avg_logprob
                  /\ d.no_speech_prob = emitted[r][i].no_speech_prob

\* C14, witness: a response without word_timestamps whose two segments
\* carry the confidence fields and no words, although the engine gave words.
C14_Witness ==
    /\ Succeeded(1) /\ ~word_timestamps[1]
    /\ Len(response[1].segments) = 2
    /\ response[1].duration = 6
    /\ Truthy(emitted[1][1].words)
    /\ DOMAIN response[1].segments[1] = ExtendedSegmentFields

\* C15, as stated: once a request that had a temporary file created has its
\* response, the file is not on disk, on the path where the write into the
\* new file raised included (a removal that itself raised set aside).
C15_CreatedFileGoneOnEveryExit ==
    \A r \in Requests :
        Done(r) /\ temp_file[r] # Unbound /\ cleanup[r] # "raised" =>
            temp_file[r] \notin disk

\* The order of a handler's positions: each step moves a request forward.
PipelineOrder ==
    { <<"idle", "reading">>, <<"idle", "done">>,
      <<"reading", "transcribing">>, <<"reading", "done">>,
      <<"transcribing", "transcribed">>,
      <<"transcribed", "collecting">>, <<"transcribed", "done">>,
      <<"collecting", "collected">>,
      <<"collected", "done">> }

\* C16: within a request the steps are in order.  A temporary file exists
\* only after the engine-loaded, filename and size checks passed on the
\* body that was read; the engine has been invoked only with the whole
\* payload in the closed file; the generator is consumed only by the second
\* invocation, made after the first returned it; a normalised response
\* exists only after the generator was exhausted; the finally block has run
\* only in a request that is finished, and nothing of a finished request
\* changes afterwards.
C16_StepsStrictlyOrdered ==
    /\ [](\A r \in Requests :
            /\ temp_file[r] # Unbound =>
                  /\ model = "WhisperModel"
                  /\ upload[r].filename # ""
                  /\ content[r] = upload[r].size
                  /\ content[r] <= MAX_FILE_SIZE
            /\ calls[r] >= 1 =>
                  /\ temp_path[r] = temp_file[r]
                  /\ temp_path[r] # Unbound
                  /\ written[r] = content[r]
            /\ (calls[r] = 2 \/ emitted[r] # <<>>
                  \/ segments_iter[r].consumer # 0) =>
                  /\ calls[r] = 2
                  /\ segments_iter[r].producer = 1
                  /\ segments_iter[r].handed_back
                  /\ pc[r] \in {"collecting", "collected", "done"}
            /\ response[r].kind = "result" =>
                  /\ calls[r] = 2
                  /\ future[r].state = "result"
                  /\ response[r] = TranscriptionResponse(emitted[r], Info,
                                                         word_timestamps[r])
            /\ cleanup[r] # "none" => Done(r)
            /\ response[r].kind # "none" => Done(r))
    /\ [][\A r \in Requests :
            /\ pc'[r] # pc[r] => <<pc[r], pc'[r]>> \in PipelineOrder
            /\ Done(r) =>
                  /\ response'[r] = response[r]
                  /\ cleanup'[r] = cleanup[r]
                  /\ calls'[r] = calls[r]
                  /\ emitted'[r] = emitted[r]
                  /\ temp_file'[r] = temp_file[r]
                  /\ written'[r] = written[r]]_vars

\* C16, witness: a request that went through every step: a body of exactly
\* the limit written whole, two invocations, two segments normalised, the
\* file removed.
C16_Witness ==
    /\ Succeeded(1) /\ calls[1] = 2
    /\ written[1] = MAX_FILE_SIZE
    /\ Len(response[1].segments) = 2
    /\ cleanup[1] = "removed"

\* C17: the staged file of a request exists from the end of staging until
\* its segment collection has completed or failed: while the request is in
\* flight its path is on disk, and a step that removes it is taken with no
\* worker-thread invocation of the request running, after the invocation
\* the handler awaited has raised or the collection has returned.
C17_StagedFileOutlivesWorker ==
    /\ [](\A r \in Requests : InFlight(r) => temp_path[r] \in disk)
    /\ [][\A r \in Requests :
            InFlight(r) /\ temp_path[r] \notin disk' =>
                /\ ~InEngine(r)
                /\ pc[r] = "collected" \/ future[r].state = "exception"
                /\ pc'[r] = "done"]_vars

\* C17, witness: the first request was answered and its file removed while
\* the second request's generator is being consumed on a worker thread,
\* its own file in place.
C17_Witness ==
    /\ Done(1) /\ cleanup[1] = "removed" /\ temp_path[1] \notin disk
    /\ pc[2] = "collecting" /\ Len(emitted[2]) = 1
    /\ temp_path[2] \in disk

\* C18, as stated: the text of a successful response neither begins nor
\* ends with a space, whatever the engine emitted, a first or last segment
\* of empty or whitespace-only text included.
C18_TextHasNoOuterSpace ==
    \A r \in Requests :
        Succeeded(r) /\ response[r].text # <<>> =>
            /\ response[r].text[1] # " "
            /\ response[r].text[Len(response[r].text)] # " "

\* C19: the engine handle is written once, by lifespan: a step that changes
\* it is lifespan's load (from None to the engine, lifespan from pending to
\* running) and changes nothing of any request or of /health; once loaded
\* it stays as it is under every interleaving of health_check, root and
\* transcribe_audio; and no request has made an engine invocation with the
\* handle unset.
C19_EngineHandleWrittenOnce ==
    /\ [][/\ model' # model =>
                /\ model = "None" /\ model' = "WhisperModel"
                /\ lifespan = "pending" /\ lifespan' = "running"
                /\ UNCHANGED <<health, pc, handlerVars>>
          /\ model = "WhisperModel" => model' = "WhisperModel"]_vars
    /\ [](\A r \in Requests :
             (calls[r] >= 1 \/ pc[r] \notin {"idle", "done"}) =>
                 model = "WhisperModel")
    /\ [](model = "WhisperModel" <=> lifespan = "running")

\* C19, witness: with the handle loaded and /health having said so, one
\* request has been answered 200 while the other is inside the engine.
C19_Witness ==
    /\ model = "WhisperModel"
    /\ health = [status |-> "healthy", model_loaded |-> TRUE]
    /\ Succeeded(1) /\ pc[2] = "transcribing" /\ calls[2] = 1

Rejected(r) == Done(r) /\ response[r].kind = "error" /\ response[r].status \in {503, 400, 413}

\* C20: the rejections have a fixed precedence.  At arrival a request is
\* answered 503 if the engine handle is None, whatever its filename and
\* size; otherwise 400 if its filename is empty, whatever its size; a 413
\* is given only to a request with the handle loaded and a filename, once
\* its body was read and is over the limit; and a rejected request has
\* created no temporary file, bound no path and made no engine invocation.
C20_RejectionPrecedence ==
    /\ [][\A r \in Requests :
            pc[r] = "idle" /\ pc'[r] # "idle" =>
                /\ model = "None" =>
                      response'[r] = HTTPException(503, "Model not loaded")
                /\ model # "None" /\ upload'[r].filename = "" =>
                      response'[r] = HTTPException(400, "No filename provided")
                /\ model # "None" /\ upload'[r].filename # "" =>
                      /\ response'[r] = NoResponse
                      /\ pc'[r] = "reading"]_vars
    /\ [](\A r \in Requests :
            /\ Status(r, 413) =>
                  /\ model # "None"
                  /\ upload[r].filename # ""
                  /\ content[r] > MAX_FILE_SIZE
            /\ (pc[r] = "reading" /\ upload[r].size > MAX_FILE_SIZE) =>
                  ~ENABLED Stage(r)
            /\ Rejected(r) =>
                  /\ temp_file[r] = Unbound /\ temp_path[r] = Unbound
                  /\ written[r] = 0 - 1
                  /\ calls[r] = 0
                  /\ cleanup[r] = "none")

\* C20, witness: two requests that each have an empty filename and a body
\* over the limit: the one that arrived before the engine was loaded was
\* answered 503, the one that arrived after it 400, and nothing is on disk.
C20_Witness ==
    /\ upload[1] = [filename |-> "", size |-> MAX_FILE_SIZE + 1]
    /\ upload[2] = upload[1]
    /\ Status(1, 503) /\ Status(2, 400)
    /\ disk = {}

=============================================================================
